---- MODULE Spec2Model ----
(***************************************************************************)
(* Model of the event engine of src/app.py (class MapaAstral): the         *)
(* clustering pass _deduplicate_transitos, the void-of-course derivation   *)
(* calcular_voc_lua and the event compiler compilar_eventos_astral.        *)
(*                                                                         *)
(* Instants (Julian days in the source) are counted in ticks;              *)
(* TicksPerSecond ticks make one second, so one day is 86400 *             *)
(* TicksPerSecond ticks.  Angles are counted in hundredths of a degree,    *)
(* residuals (orbe) in thousandths of a degree.                            *)
(*                                                                         *)
(* The root finders buscar_transito_exato and buscar_mudanca_signo_exata   *)
(* and the loops of calcular_transitos and calcular_mudancas_signo run     *)
(* over a linear ephemeris (SpecBusca, SpecVarredura), with angles in      *)
(* units of 1/GRAU degree and a day of efemeride.dia ticks.  SpecAngulo    *)
(* calls angular_difference alone and SpecRelatorio runs the stages of     *)
(* gerar_relatorio in their order.                                         *)
(***************************************************************************)
EXTENDS Integers, Sequences, FiniteSets, TLC

VARIABLES
    deteccoes,       \* what the scan loops of calcular_transitos append for this chart
    ingressos,       \* what the sampling loop of calcular_mudancas_signo finds for this chart
    transitos,       \* self.transitos
    mudancas_signo,  \* self.mudancas_signo
    voc_periodos,    \* self.voc_periodos
    eventos_astral,  \* self.eventos_astral
    entrada,         \* self.transitos as the latest _deduplicate_transitos call found it
    op,              \* the method of MapaAstral that returned last
    efemeride,       \* what swe.calc_ut answers: the motion of every body, and the chart
    exec             \* the call that is running: its arguments, its position and its locals

vars == <<deteccoes, ingressos, transitos, mudancas_signo, voc_periodos,
          eventos_astral, entrada, op, efemeride, exec>>

----------------------------------------------------------------------------
(* Units and bounds *)

TicksPerSecond == 2
MaxTransitos == 3

UmSegundo == TicksPerSecond
Dia == 86400 * UmSegundo
JANELA_TEMPO == (15 * Dia) \div 100
Vigesimo == Dia \div 20

(* swisseph body codes used by PLANETAS *)
SUN == 0
MOON == 1
MERCURY == 2
VENUS == 3
MARS == 4
JUPITER == 5
SATURN == 6
URANUS == 7
NEPTUNE == 8
PLUTO == 9
TRUE_NODE == 11
PONTO_FIXO == 0 - 1

Abs(x) == IF x < 0 THEN 0 - x ELSE x

Range(s) == {s[i] : i \in 1..Len(s)}

Ocorrencias(s, e) == Cardinality({i \in 1..Len(s) : s[i] = e})

SeqsAte(S, n) == UNION {[1..k -> S] : k \in 0..n}

----------------------------------------------------------------------------
(* Transito and the sort used on lists of events *)

Transito(jd, p1, p2, asp, pos1, pos2, orbe_final, tipo, nome2) ==
    [jd_exato |-> jd, planeta1 |-> p1, planeta2 |-> p2, aspecto |-> asp,
     pos_planeta1 |-> pos1, pos_planeta2 |-> pos2, orbe |-> orbe_final,
     tipo |-> tipo, planeta2_nome |-> nome2]

(* list.sort(key=lambda x: x.jd_exato) and list.sort() with
   EventoAstral.__lt__: a stable sort on jd_exato *)
InserirPorJd(s, e) ==
    LET k == Cardinality({i \in 1..Len(s) : s[i].jd_exato <= e.jd_exato})
    IN  SubSeq(s, 1, k) \o <<e>> \o SubSeq(s, k + 1, Len(s))

OrdenarPorJd(s) ==
    LET F[i \in 0..Len(s)] ==
            IF i = 0 THEN <<>> ELSE InserirPorJd(F[i - 1], s[i])
    IN  F[Len(s)]

Ordenado(s) == \A i \in 1..Len(s) - 1 : s[i].jd_exato <= s[i + 1].jd_exato

----------------------------------------------------------------------------
(* _deduplicate_transitos *)

(* round(x, 1) on hundredths of a degree: to the nearest tenth, ties to even *)
Round1(a) ==
    LET q == a \div 10
        r == a % 10
    IN  IF r < 5 THEN q * 10
        ELSE IF r > 5 THEN (q + 1) * 10
        ELSE IF q % 2 = 0 THEN q * 10 ELSE (q + 1) * 10

AspKey(trans) ==
    IF trans.tipo \in {"PAR", "CPA"} THEN <<trans.tipo, 0>>
    ELSE <<"", Round1(trans.aspecto)>>

Chave(trans) == <<trans.planeta1, trans.planeta2, AspKey(trans)>>

(* the keys of the dict grupos, in insertion order *)
ChavesEmOrdem(s) ==
    LET F[i \in 0..Len(s)] ==
            IF i = 0 THEN <<>>
            ELSE IF \E j \in 1..Len(F[i - 1]) : F[i - 1][j] = Chave(s[i])
                 THEN F[i - 1]
                 ELSE Append(F[i - 1], Chave(s[i]))
    IN  F[Len(s)]

Grupo(s, chave) == SelectSeq(s, LAMBDA t : Chave(t) = chave)

SubclustersDesdeOPrimeiro(g, janela_tempo) ==
    LET F[i \in 1..Len(g)] ==
            IF i = 1 THEN << <<g[1]>> >>
            ELSE LET n == Len(F[i - 1])
                 IN  IF g[i].jd_exato - F[i - 1][n][1].jd_exato <= janela_tempo
                     THEN [F[i - 1] EXCEPT ![n] = Append(@, g[i])]
                     ELSE Append(F[i - 1], <<g[i]>>)
    IN  F[Len(g)]

(* lines 421-430: g is sorted by jd_exato and not empty *)
Subclusters(g, janela_tempo) ==
    LET F[i \in 1..Len(g)] ==
            IF i = 1 THEN << <<g[1]>> >>
            ELSE LET n == Len(F[i - 1])
                 IN  IF g[i].jd_exato - g[i - 1].jd_exato <= janela_tempo
                     THEN [F[i - 1] EXCEPT ![n] = Append(@, g[i])]
                     ELSE Append(F[i - 1], <<g[i]>>)
    IN  F[Len(g)]

PrimeiroDoCluster(cluster) == cluster[1]

(* min(cluster, key=lambda x: x.orbe): the first of the smallest *)
Melhor(cluster) ==
    cluster[CHOOSE i \in 1..Len(cluster) :
                /\ \A j \in 1..Len(cluster) : cluster[i].orbe <= cluster[j].orbe
                /\ \A j \in 1..(i - 1) : cluster[j].orbe > cluster[i].orbe]

FiltrarGrupoSemContinue(g, janela_tempo) ==
    LET sc == Subclusters(OrdenarPorJd(g), janela_tempo)
        filtrados == [i \in 1..Len(sc) |-> Melhor(sc[i])]
    IN  IF Len(g) = 1 THEN g \o filtrados ELSE filtrados

(* lines 417-433: what one group adds to transitos_filtrados *)
FiltrarGrupo(g, janela_tempo) ==
    IF Len(g) = 1 THEN <<g[1]>>
    ELSE LET sc == Subclusters(OrdenarPorJd(g), janela_tempo)
         IN  [i \in 1..Len(sc) |-> Melhor(sc[i])]

(* lines 415-433: transitos_filtrados before the final sort *)
Filtrados(s, janela_tempo) ==
    LET ks == ChavesEmOrdem(s)
        F[i \in 0..Len(ks)] ==
            IF i = 0 THEN <<>>
            ELSE F[i - 1] \o FiltrarGrupo(Grupo(s, ks[i]), janela_tempo)
    IN  F[Len(ks)]

DeduplicarSemOrdenar(s, janela_tempo) ==
    IF Len(s) = 0 THEN s ELSE Filtrados(s, janela_tempo)

deduplicate_transitos(s, janela_tempo) ==
    IF Len(s) = 0 THEN s ELSE OrdenarPorJd(Filtrados(s, janela_tempo))

----------------------------------------------------------------------------
(* The detections the scan loops can append (lines 467-468 and 491-492),
   all accepted with a residual below 0.005 degree: squares of the Sun to
   the Moon and of the Moon to the ascendant, at instants one twentieth of a
   day apart, at the cluster window and one tick beyond it *)

InstantesDedup == {Vigesimo, 2 * Vigesimo, 4 * Vigesimo, 4 * Vigesimo + 1}

OrbesAceitos == {1, 2}

DeteccoesDedup ==
    {Transito(jd, SUN, MOON, 9000, 1000, 10000, o, "aspecto", "LUA") :
        jd \in InstantesDedup, o \in OrbesAceitos}
    \cup
    {Transito(jd, MOON, PONTO_FIXO, 9000, 1000, 10000, o, "aspecto", "ASC") :
        jd \in InstantesDedup, o \in OrbesAceitos}

----------------------------------------------------------------------------
(* Texts.  A text that the code searches or splits (the descricao of a sign
   ingress) is a sequence of characters; the other descriptions are
   sequences of text fragments. *)

SIGNOS ==
    << <<"A", "R">>, <<"T", "A">>, <<"G", "E">>, <<"C", "A">>, <<"L", "E">>,
       <<"V", "I">>, <<"L", "I">>, <<"S", "C">>, <<"S", "G">>, <<"C", "P">>,
       <<"A", "Q">>, <<"P", "I">> >>

(* PLANETAS, restricted to the bodies of the model: name and swisseph code *)
PLANETAS ==
    << [nome |-> <<"S", "O", "L">>, code |-> SUN],
       [nome |-> <<"L", "U", "A">>, code |-> MOON],
       [nome |-> <<"V", "E", "N">>, code |-> VENUS],
       [nome |-> <<"N", "E", "T">>, code |-> NEPTUNE],
       [nome |-> <<"P", "L", "U">>, code |-> PLUTO] >>

Juntar(cs) ==
    LET F[i \in 0..Len(cs)] == IF i = 0 THEN "" ELSE F[i - 1] \o cs[i]
    IN  F[Len(cs)]

(* PLANETA_REV.get(code, f'PL{code}') *)
PLANETA_REV(code) ==
    IF \E i \in 1..Len(PLANETAS) : PLANETAS[i].code = code
    THEN Juntar(PLANETAS[CHOOSE i \in 1..Len(PLANETAS) : PLANETAS[i].code = code].nome)
    ELSE "PL" \o ToString(code)

(* sub in texto *)
Contem(texto, sub) ==
    \E i \in 1..(Len(texto) - Len(sub) + 1) :
        SubSeq(texto, i, i + Len(sub) - 1) = sub

(* texto.split()[-1], for a text that does not end in a blank *)
UltimaPalavra(texto) ==
    LET brancos == {i \in 1..Len(texto) : texto[i] = " "}
        ultimo == IF brancos = {} THEN 0
                  ELSE CHOOSE i \in brancos : \A j \in brancos : j <= i
    IN  SubSeq(texto, ultimo + 1, Len(texto))

(* {n:02d} *)
Fmt02(n) == IF n < 10 THEN "0" \o ToString(n) ELSE ToString(n)

(* lines 71-78, on ticks *)
dias_para_hms(dias) ==
    LET total == Abs(dias) \div UmSegundo
        h == total \div 3600
        m == (total % 3600) \div 60
        segundos == total % 60
    IN  Fmt02(h) \o ":" \o Fmt02(m) \o ":" \o Fmt02(segundos)

(* lines 43-48, on hundredths of a degree *)
graus_para_dms(graus) ==
    LET c == graus % 36000
        g == c \div 100
        m == ((c % 100) * 60) \div 100
        sg == ((((c % 100) * 60) % 100) * 60) \div 100
    IN  Fmt02(g) \o "d" \o Fmt02(m) \o "'" \o Fmt02(sg) \o "''"

(* lines 51-55 *)
graus_para_signo_posicao(graus) ==
    LET c == graus % 36000
    IN  <<Juntar(SIGNOS[(c \div 3000) + 1]), graus_para_dms(c % 3000)>>

(* ASPECTOS, in the order of the dict: code and target angle *)
ASPECTOS ==
    << <<"CJN", 0>>, <<"OPO", 18000>>, <<"TRI", 12000>>, <<"SQR", 9000>>,
       <<"SXT", 6000>>, <<"QCX", 15000>>, <<"SSQ", 4500>>, <<"SQQ", 13500>> >>

(* lines 614-619 *)
AspCod(aspecto) ==
    LET perto == {i \in 1..Len(ASPECTOS) : Abs(aspecto - ASPECTOS[i][2]) < 10}
    IN  IF perto = {} THEN "???"
        ELSE ASPECTOS[CHOOSE i \in perto : \A j \in perto : i <= j][1]

(* {orbe:.5f}, the residual being in thousandths of a degree and below 10 *)
FmtOrbe(orbe) ==
    ToString(orbe \div 1000) \o "." \o
    (IF orbe % 1000 < 10 THEN "00" ELSE IF orbe % 1000 < 100 THEN "0" ELSE "") \o
    ToString(orbe % 1000) \o "00"

EventoAstral(jd, tipo, descricao) ==
    [jd_exato |-> jd, tipo |-> tipo, descricao |-> descricao]

----------------------------------------------------------------------------
(* calcular_mudancas_signo *)

NomeDe(code) == PLANETAS[CHOOSE i \in 1..Len(PLANETAS) : PLANETAS[i].code = code].nome

(* lines 513-515: the event of the ingress of the body code into sign signo_atual *)
EventoDeIngresso(ing) ==
    EventoAstral(ing.jd, "entrada_signo",
                 NomeDe(ing.code) \o <<" ", "e", "n", "t", "r", "a", " ", "e", "m", " ">>
                     \o SIGNOS[ing.signo_atual + 1])

(* lines 503-518 *)
MudancasSigno(ings) == [i \in 1..Len(ings) |-> EventoDeIngresso(ings[i])]

----------------------------------------------------------------------------
(* calcular_voc_lua *)

(* int(lon / 30.0) % 12 of the Moon at jd (lines 535-536): the sign the Moon
   entered last, or the one before its first ingress of the chart *)
SignoDaLua(ings, jd) ==
    LET lua == {i \in 1..Len(ings) : ings[i].code = MOON}
        passados == {i \in lua : ings[i].jd <= jd}
    IN  IF passados # {}
        THEN ings[CHOOSE i \in passados : \A j \in passados : ings[j].jd <= ings[i].jd].signo_atual
        ELSE IF lua # {}
        THEN (ings[CHOOSE i \in lua : \A j \in lua : ings[i].jd <= ings[j].jd].signo_atual + 11) % 12
        ELSE 0

TodasAsMudancas(ms) == ms

(* line 522 *)
MudancasLua(ms) == SelectSeq(ms, LAMBDA e : Contem(e.descricao, <<"L", "U", "A">>))

(* lines 525-527 *)
AspectosLua(ts, jd_mudanca) ==
    SelectSeq(ts, LAMBDA t : (t.planeta1 = MOON \/ t.planeta2 = MOON)
                                /\ t.jd_exato < jd_mudanca)

PrimeiroAspecto(aspectos_lua) ==
    aspectos_lua[CHOOSE i \in 1..Len(aspectos_lua) :
        /\ \A j \in 1..Len(aspectos_lua) :
               aspectos_lua[j].jd_exato >= aspectos_lua[i].jd_exato
        /\ \A j \in 1..(i - 1) : aspectos_lua[j].jd_exato > aspectos_lua[i].jd_exato]

(* line 529: max(aspectos_lua, key=lambda x: x.jd_exato), the first of the latest *)
UltimoAspecto(aspectos_lua) ==
    aspectos_lua[CHOOSE i \in 1..Len(aspectos_lua) :
        /\ \A j \in 1..Len(aspectos_lua) :
               aspectos_lua[j].jd_exato <= aspectos_lua[i].jd_exato
        /\ \A j \in 1..(i - 1) : aspectos_lua[j].jd_exato < aspectos_lua[i].jd_exato]

(* lines 529-543 *)
PeriodoVoc(mudanca_evento, aspectos_lua, ings) ==
    LET jd_voc_inicio == UltimoAspecto(aspectos_lua).jd_exato + UmSegundo
        jd_voc_fim == mudanca_evento.jd_exato
    IN  [jd_inicio |-> jd_voc_inicio,
         jd_fim |-> jd_voc_fim,
         signo_saida |-> Juntar(SIGNOS[SignoDaLua(ings, jd_voc_inicio) + 1]),
         signo_entrada |-> Juntar(UltimaPalavra(mudanca_evento.descricao)),
         duracao_hms |-> dias_para_hms(jd_voc_fim - jd_voc_inicio)]

(* lines 521-543 *)
VocPeriodos(ms, ts, ings) ==
    LET mudancas_lua == MudancasLua(ms)
        F[i \in 0..Len(mudancas_lua)] ==
            IF i = 0 THEN <<>>
            ELSE LET aspectos_lua == AspectosLua(ts, mudancas_lua[i].jd_exato)
                 IN  IF Len(aspectos_lua) > 0
                     THEN Append(F[i - 1], PeriodoVoc(mudancas_lua[i], aspectos_lua, ings))
                     ELSE F[i - 1]
    IN  F[Len(mudancas_lua)]

----------------------------------------------------------------------------
(* compilar_eventos_astral *)

(* lines 610-621 *)
EventoDeTransito(trans) ==
    LET p1_nome == PLANETA_REV(trans.planeta1)
        p2_nome == IF trans.planeta2_nome # "" THEN trans.planeta2_nome
                   ELSE PLANETA_REV(trans.planeta2)
        sp1 == graus_para_signo_posicao(trans.pos_planeta1)
        sp2 == graus_para_signo_posicao(trans.pos_planeta2)
    IN  EventoAstral(trans.jd_exato, "aspecto",
            <<IF trans.planeta2 = PONTO_FIXO THEN "[P-PT]" ELSE "[P-P]",
              "[" \o p1_nome \o " " \o AspCod(trans.aspecto) \o " " \o p2_nome \o "]",
              "-", sp1[2], sp1[1], "/", sp2[2], sp2[1], "-", FmtOrbe(trans.orbe)>>)

(* lines 626-627 *)
EventoDeVoc(voc) ==
    EventoAstral(voc.jd_inicio, "voc",
        <<"LUA Fora de Curso durante", voc.duracao_hms, "ate entrar em", voc.signo_entrada>>)

CompilarSemLimpar(anteriores, ts, ms, vs) ==
    OrdenarPorJd(anteriores
                 \o [i \in 1..Len(ts) |-> EventoDeTransito(ts[i])]
                 \o ms
                 \o [i \in 1..Len(vs) |-> EventoDeVoc(vs[i])])

(* lines 608-629: anteriores is self.eventos_astral as the call finds it *)
Compilar(anteriores, ts, ms, vs) ==
    OrdenarPorJd([i \in 1..Len(ts) |-> EventoDeTransito(ts[i])]
                 \o ms
                 \o [i \in 1..Len(vs) |-> EventoDeVoc(vs[i])])

----------------------------------------------------------------------------
(* The charts of the pipeline, over a scan window of four days: transits of
   and to the Moon and one transit without it, and ingresses of the Moon
   before, at and after them, one of them a single tick after a transit *)

MaxDeteccoes == 2
MaxIngressosLua == 2

DeteccoesVoc ==
    {Transito(Dia \div 2, MOON, VENUS, 9000, 1000, 10000, 1, "aspecto", "VEN"),
     Transito(Dia, MOON, PLUTO, 6000, 1650, 29650, 1, "aspecto", "PLU"),
     Transito(Dia, SUN, VENUS, 6000, 4025, 10025, 2, "aspecto", "VEN"),
     Transito(2 * Dia, SUN, MOON, 18000, 21000, 3000, 1, "aspecto", "LUA"),
     Transito(3 * Dia, MOON, VENUS, 12000, 4300, 10300, 1, "aspecto", "VEN")}

InstantesIngressoLua ==
    {Dia + 1, Dia + UmSegundo, 2 * Dia, 3 * Dia + UmSegundo, 4 * Dia}

(* the Moon stays about two days and a quarter in a sign, never less than
   two days *)
PermanenciaMinimaLua == 2 * Dia

(* the Moon's ingresses of a chart, in time order, into successive signs *)
IngressosLua ==
    {[i \in 1..Len(js) |-> [jd |-> js[i], code |-> MOON, signo_atual |-> i % 12]] :
        js \in {x \in SeqsAte(InstantesIngressoLua, MaxIngressosLua) :
                    \A i \in 1..(Len(x) - 1) : x[i] + PermanenciaMinimaLua <= x[i + 1]}}

IngressosPlutao ==
    {<<>>, <<[jd |-> 3 * Dia + 7, code |-> PLUTO, signo_atual |-> 10]>>}

(* PLANETAS lists the Moon before Pluto *)
IngressosDoMapa == {l \o q : l \in IngressosLua, q \in IngressosPlutao}

----------------------------------------------------------------------------
(* Operations *)

(* a scan that appends to the list it finds *)
VarrerSemLimpar(anteriores, dets) == anteriores \o dets

(* lines 438-493: self.transitos, which holds anteriores, is cleared and the
   scan loops append the detections dets *)
Varrer(anteriores, dets) == dets

(* lines 437-494: the list is cleared, the scan loops append the detections
   that the ephemeris yields for this chart, and the list is deduplicated *)
calcular_transitos ==
    /\ transitos' = deduplicate_transitos(Varrer(transitos, deteccoes), JANELA_TEMPO)
    /\ entrada' = Varrer(transitos, deteccoes)
    /\ op' = "calcular_transitos"
    /\ UNCHANGED <<deteccoes, ingressos, mudancas_signo, voc_periodos, eventos_astral, efemeride, exec>>

(* lines 407-435, run once more on self.transitos *)
deduplicar ==
    /\ op \in {"calcular_transitos", "_deduplicate_transitos"}
    /\ transitos' = deduplicate_transitos(transitos, JANELA_TEMPO)
    /\ entrada' = transitos
    /\ op' = "_deduplicate_transitos"
    /\ UNCHANGED <<deteccoes, ingressos, mudancas_signo, voc_periodos, eventos_astral, efemeride, exec>>

(* lines 497-518 *)
calcular_mudancas_signo ==
    /\ mudancas_signo' = MudancasSigno(ingressos)
    /\ op' = "calcular_mudancas_signo"
    /\ UNCHANGED <<deteccoes, ingressos, transitos, voc_periodos, eventos_astral, entrada, efemeride, exec>>

(* lines 520-543 *)
calcular_voc_lua ==
    /\ voc_periodos' = VocPeriodos(mudancas_signo, transitos, ingressos)
    /\ op' = "calcular_voc_lua"
    /\ UNCHANGED <<deteccoes, ingressos, transitos, mudancas_signo, eventos_astral, entrada, efemeride, exec>>

(* lines 607-629 *)
compilar_eventos_astral ==
    /\ eventos_astral' = Compilar(eventos_astral, transitos, mudancas_signo, voc_periodos)
    /\ op' = "compilar_eventos_astral"
    /\ UNCHANGED <<deteccoes, ingressos, transitos, mudancas_signo, voc_periodos, entrada, efemeride, exec>>

(* lines 289-316 *)
InitCom(D, I) ==
    /\ deteccoes \in D
    /\ ingressos \in I
    /\ transitos = <<>>
    /\ mudancas_signo = <<>>
    /\ voc_periodos = <<>>
    /\ eventos_astral = <<>>
    /\ entrada = <<>>
    /\ op = "__init__"
    /\ efemeride = <<>>
    /\ exec = <<>>

InitDedup == InitCom(SeqsAte(DeteccoesDedup, MaxTransitos), {<<>>})

NextDedup == calcular_transitos \/ deduplicar

SpecDedup == InitDedup /\ [][NextDedup]_vars

Init == InitCom(SeqsAte(DeteccoesVoc, MaxDeteccoes), IngressosDoMapa)

Next ==
    \/ calcular_transitos
    \/ calcular_mudancas_signo
    \/ calcular_voc_lua
    \/ compilar_eventos_astral

Spec == Init /\ [][Next]_vars

----------------------------------------------------------------------------
(* gerar_relatorio over the charts of the pipeline.  exec.pc is the position
   in the stages of lines 636-642 and exec.feitos the stages that returned.
   The other calls of gerar_relatorio (the natal chart before line 636, the
   fixed stars of lines 640-641) touch none of the four collections. *)

(* a report that derives the void-of-course periods first *)
EtapasVocPrimeiro ==
    <<"calcular_voc_lua", "calcular_transitos", "calcular_mudancas_signo",
      "compilar_eventos_astral">>

(* lines 636, 637, 638 and 642 *)
Etapas ==
    <<"calcular_transitos", "calcular_mudancas_signo", "calcular_voc_lua",
      "compilar_eventos_astral">>

(* the next call of gerar_relatorio, from its first statement to its return *)
gerar_relatorio_etapa ==
    /\ exec.metodo = "gerar_relatorio"
    /\ exec.pc <= Len(Etapas)
    /\ LET etapa == Etapas[exec.pc]
       IN  /\ transitos' = IF etapa = "calcular_transitos"
                           THEN deduplicate_transitos(Varrer(transitos, deteccoes),
                                                      JANELA_TEMPO)
                           ELSE transitos
           /\ entrada' = IF etapa = "calcular_transitos"
                         THEN Varrer(transitos, deteccoes) ELSE entrada
           /\ mudancas_signo' = IF etapa = "calcular_mudancas_signo"
                                THEN MudancasSigno(ingressos)
                                ELSE mudancas_signo
           /\ voc_periodos' = IF etapa = "calcular_voc_lua"
                              THEN VocPeriodos(mudancas_signo, transitos, ingressos)
                              ELSE voc_periodos
           /\ eventos_astral' = IF etapa = "compilar_eventos_astral"
                                THEN Compilar(eventos_astral, transitos,
                                              mudancas_signo, voc_periodos)
                                ELSE eventos_astral
           /\ op' = etapa
           /\ exec' = [exec EXCEPT !.pc = @ + 1, !.feitos = Append(@, etapa)]
    /\ UNCHANGED <<deteccoes, ingressos, efemeride>>

InitRelatorio ==
    /\ deteccoes \in SeqsAte(DeteccoesVoc, MaxDeteccoes)
    /\ ingressos \in IngressosDoMapa
    /\ transitos = <<>>
    /\ mudancas_signo = <<>>
    /\ voc_periodos = <<>>
    /\ eventos_astral = <<>>
    /\ entrada = <<>>
    /\ op = "__init__"
    /\ efemeride = <<>>
    /\ exec = [metodo |-> "gerar_relatorio", pc |-> 1, feitos |-> <<>>]

NextRelatorio == gerar_relatorio_etapa

SpecRelatorio == InitRelatorio /\ [][NextRelatorio]_vars

----------------------------------------------------------------------------
(* The synthetic ephemeris.  In the specifications that run the scan loops and
   the root finders, efemeride.dia is the number of ticks of a day and
   efemeride.corpos gives the motion of every body: its longitude lon0 at
   instant 0 and num / den units of angle per tick.  Longitudes, separations
   and residuals are counted in units of 1 / GRAU degree; the fields of a
   Transito keep hundredths (aspecto, pos) and thousandths (orbe) of a
   degree. *)

GRAU == 100000
VOLTA == 360 * GRAU

Centesimos(x) == x \div (GRAU \div 100)
Milesimos(x) == x \div (GRAU \div 1000)

Min(S) == CHOOSE x \in S : \A y \in S : x <= y
Max(S) == CHOOSE x \in S : \A y \in S : x >= y

(* pos[0] of swe.calc_ut(jd, planeta): lon0 + num * jd / den, rounded down to
   the unit *)
calc_ut(jd, planeta) ==
    LET c == efemeride.corpos[planeta]
    IN  c.lon0 + c.num * (jd \div c.den) + (c.num * (jd % c.den)) \div c.den

(* a body that moves num / den units a tick and is at longitude lon at
   instant jd *)
Movimento(lon, jd, num, den) ==
    [lon0 |-> lon - (num * (jd \div den) + (num * (jd % den)) \div den),
     num |-> num, den |-> den]

Parado(lon) == [lon0 |-> lon, num |-> 0, den |-> 1]

(* lines 81-83 *)
calcular_posicao_planeta(jd, planeta) == calc_ut(jd, planeta) % VOLTA

(* lines 86-88: the declination of the equatorial position, which the
   ephemeris of the scans keeps constant over the window *)
calcular_declinacao_planeta(jd, planeta) == efemeride.declinacoes[planeta]

(* lines 37-40 *)
(* the difference folded without reducing the angles to a turn *)
angular_difference_sem_reduzir(a, b) ==
    LET d == Abs(a - b)
    IN  IF d <= 180 * GRAU THEN d ELSE VOLTA - d

angular_difference(a, b) ==
    LET d == Abs((a % VOLTA) - (b % VOLTA))
    IN  IF d <= 180 * GRAU THEN d ELSE VOLTA - d

(* Direct calls of angular_difference (lines 37-40): the angles are multiples
   of 7.5 degrees from -195 to 375 degrees, and the angles next to them *)
AngulosDeTeste ==
    {(15 * k * GRAU) \div 2 + r : k \in (0 - 26)..50, r \in {0, 1}}

chamar_angular_difference ==
    /\ exec.metodo = "angular_difference"
    /\ exec.pc = "chamada"
    /\ exec' = [exec EXCEPT !.pc = "retorno",
                            !.retorno = angular_difference(exec.a, exec.b)]
    /\ UNCHANGED <<deteccoes, ingressos, transitos, mudancas_signo, voc_periodos,
                   eventos_astral, entrada, op, efemeride>>

InitAngulo ==
    /\ deteccoes = <<>>
    /\ ingressos = <<>>
    /\ transitos = <<>>
    /\ mudancas_signo = <<>>
    /\ voc_periodos = <<>>
    /\ eventos_astral = <<>>
    /\ entrada = <<>>
    /\ op = "__init__"
    /\ efemeride = <<>>
    /\ exec \in {[metodo |-> "angular_difference", pc |-> "chamada",
                  a |-> a, b |-> b, retorno |-> 0] :
                    a \in AngulosDeTeste, b \in AngulosDeTeste}

NextAngulo == chamar_angular_difference

SpecAngulo == InitAngulo /\ [][NextAngulo]_vars

----------------------------------------------------------------------------
(* buscar_transito_exato.  a is the record of the arguments of the call:
   jd_inicio, jd_fim, planeta1, planeta2, angulo_aspecto, orbe (both in
   units) and eh_ponto_fixo. *)

(* the pair (0.0, 999.0) of lines 181 and 212 *)
NaoEncontrado == <<0, 999 * GRAU>>

(* lines 162-166 *)
calcular_orbe_atual(jd, a) ==
    LET p1 == calcular_posicao_planeta(jd, a.planeta1)
        p2 == IF a.eh_ponto_fixo THEN a.planeta2
              ELSE calcular_posicao_planeta(jd, a.planeta2)
    IN  angular_difference(p1, p2) - a.angulo_aspecto

(* lines 168-174: the list amostras *)
Amostras(a) ==
    LET NUM_SAMPLES == 24
        delta_tempo == (a.jd_fim - a.jd_inicio) \div (NUM_SAMPLES - 1)
    IN  [i \in 1..NUM_SAMPLES |->
            LET jd_sample == a.jd_inicio + (i - 1) * delta_tempo
            IN  [jd |-> jd_sample, orbe |-> Abs(calcular_orbe_atual(jd_sample, a))]]

RECURSIVE MelhorAte(_, _)
(* lines 169-177: melhor_jd and melhor_orbe after the first n samples *)
MelhorAte(amostras, n) ==
    IF n = 0 THEN [jd |-> 0, orbe |-> 999 * GRAU]
    ELSE LET antes == MelhorAte(amostras, n - 1)
         IN  IF amostras[n].orbe < antes.orbe THEN amostras[n] ELSE antes

(* lines 183-192: jd1 and jd2 before the bisection *)
Bracket(amostras, melhor_jd) ==
    LET N == Len(amostras)
        minimos == {i \in 2..N - 1 : /\ amostras[i - 1].orbe > amostras[i].orbe
                                     /\ amostras[i].orbe < amostras[i + 1].orbe}
        jd1 == IF minimos = {} THEN 0 ELSE amostras[Min(minimos) - 1].jd
        idx == Min({i \in 1..N : amostras[i].jd = melhor_jd})
    IN  IF jd1 # 0
        THEN <<jd1, amostras[Min(minimos) + 1].jd>>
        ELSE <<amostras[Max({1, idx - 1})].jd, amostras[Min({N, idx + 1})].jd>>

(* lines 195-208: one iteration of the bisection loop; st.retorno is the pair
   that line 203 returned, <<>> while the loop is running *)
Bissectar(a, st) ==
    LET jd_meio == (st.jd1 + st.jd2) \div 2
        orbe_meio == Abs(calcular_orbe_atual(jd_meio, a))
        melhor == IF orbe_meio < st.melhor.orbe
                  THEN [jd |-> jd_meio, orbe |-> orbe_meio]
                  ELSE st.melhor
        orbe1 == Abs(calcular_orbe_atual(st.jd1, a))
        orbe2 == Abs(calcular_orbe_atual(st.jd2, a))
    IN  IF orbe_meio <= GRAU \div 1000
        THEN [st EXCEPT !.melhor = melhor, !.iteracoes = @ + 1,
                        !.retorno = <<jd_meio, orbe_meio>>]
        ELSE [jd1 |-> IF orbe1 < orbe2 THEN st.jd1 ELSE jd_meio,
              jd2 |-> IF orbe1 < orbe2 THEN jd_meio ELSE st.jd2,
              melhor |-> melhor, iteracoes |-> st.iteracoes + 1, retorno |-> <<>>]

RECURSIVE Bisseccoes(_, _, _)
(* line 195: at most n more iterations *)
Bisseccoes(a, st, n) ==
    IF n = 0 \/ st.retorno # <<>> THEN st
    ELSE Bisseccoes(a, Bissectar(a, st), n - 1)

BuscaSemAbortar(a) ==
    LET amostras == Amostras(a)
        amostrado == MelhorAte(amostras, Len(amostras))
        bracket == Bracket(amostras, amostrado.jd)
        fim == Bisseccoes(a, [jd1 |-> bracket[1], jd2 |-> bracket[2],
                              melhor |-> amostrado, iteracoes |-> 0,
                              retorno |-> <<>>], 10)
    IN  [retorno |-> IF fim.retorno # <<>> THEN fim.retorno
                     ELSE IF fim.melhor.orbe <= a.orbe
                          THEN <<fim.melhor.jd, fim.melhor.orbe>>
                          ELSE NaoEncontrado,
         amostras |-> amostras, amostrado |-> amostrado,
         bracket |-> bracket, iteracoes |-> fim.iteracoes,
         melhor |-> fim.melhor]

(* lines 155-212, with what the call did: the samples, the best sample, the
   bracket (<<>> when line 181 returned) and the end of the bisection *)
Busca(a) ==
    LET BISSECCOES_MAX == 10
        amostras == Amostras(a)
        amostrado == MelhorAte(amostras, Len(amostras))
        bracket == Bracket(amostras, amostrado.jd)
        fim == Bisseccoes(a, [jd1 |-> bracket[1], jd2 |-> bracket[2],
                              melhor |-> amostrado, iteracoes |-> 0,
                              retorno |-> <<>>], BISSECCOES_MAX)
    IN  IF 2 * amostrado.orbe > 3 * a.orbe
        THEN [retorno |-> NaoEncontrado, amostras |-> amostras,
              amostrado |-> amostrado, bracket |-> <<>>, iteracoes |-> 0,
              melhor |-> amostrado]
        ELSE [retorno |-> IF fim.retorno # <<>> THEN fim.retorno
                          ELSE IF fim.melhor.orbe <= a.orbe
                               THEN <<fim.melhor.jd, fim.melhor.orbe>>
                               ELSE NaoEncontrado,
              amostras |-> amostras, amostrado |-> amostrado,
              bracket |-> bracket, iteracoes |-> fim.iteracoes,
              melhor |-> fim.melhor]

buscar_transito_exato(a) == Busca(a).retorno

----------------------------------------------------------------------------
(* buscar_mudanca_signo_exata *)

(* lines 218-220 *)
signo_atual(jd, planeta) ==
    (calcular_posicao_planeta(jd, planeta) \div (30 * GRAU)) % 12

(* 1.0e-12 day (line 229), in ticks, rounded down: what is below it is not
   above this *)
LarguraMinima == ((efemeride.dia - 1) \div 1000000) \div 1000000

(* lines 223-230: one iteration of the loop; st.retorno is <<jd_meio>> when
   line 230 returned, <<>> while the loop is running *)
BissectarSigno(st, planeta, signo_saida) ==
    LET jd_meio == (st.jd1 + st.jd2) \div 2
        sig_meio == signo_atual(jd_meio, planeta)
        jd1 == IF sig_meio = signo_saida THEN jd_meio ELSE st.jd1
        jd2 == IF sig_meio = signo_saida THEN st.jd2 ELSE jd_meio
    IN  [jd1 |-> jd1, jd2 |-> jd2, iteracoes |-> st.iteracoes + 1,
         retorno |-> IF Abs(jd2 - jd1) <= LarguraMinima THEN <<jd_meio>> ELSE <<>>]

RECURSIVE BisseccoesDeSigno(_, _, _, _)
(* line 222: at most n more iterations *)
BisseccoesDeSigno(st, planeta, signo_saida, n) ==
    IF n = 0 \/ st.retorno # <<>> THEN st
    ELSE BisseccoesDeSigno(BissectarSigno(st, planeta, signo_saida),
                           planeta, signo_saida, n - 1)

(* lines 215-231, with the bracket the loop ended on *)
BuscaDeSigno(jd1, jd2, planeta, signo_saida) ==
    LET BISSECCOES_MAX == 20
        fim == BisseccoesDeSigno([jd1 |-> jd1, jd2 |-> jd2, iteracoes |-> 0,
                                  retorno |-> <<>>],
                                 planeta, signo_saida, BISSECCOES_MAX)
    IN  [retorno |-> IF fim.retorno # <<>> THEN fim.retorno[1]
                     ELSE (fim.jd1 + fim.jd2) \div 2,
         jd1 |-> fim.jd1, jd2 |-> fim.jd2, iteracoes |-> fim.iteracoes]

buscar_mudanca_signo_exata(jd1, jd2, planeta, signo_saida) ==
    BuscaDeSigno(jd1, jd2, planeta, signo_saida).retorno

AceitoSemTeto(retorno, jd_inicio, jd_fim) ==
    /\ retorno[1] > 0
    /\ jd_inicio <= retorno[1]
    /\ retorno[1] <= jd_fim

(* line 464 (and 489): the test that lets the scan append a Transito *)
Aceito(retorno, jd_inicio, jd_fim) ==
    /\ retorno[1] > 0
    /\ jd_inicio <= retorno[1]
    /\ retorno[1] <= jd_fim
    /\ retorno[2] < (5 * GRAU) \div 1000

(* ORBES_PADRAO, in the order of the dict: aspect and orb, in degrees *)
ORBES_PADRAO ==
    << <<0, 8>>, <<45, 2>>, <<60, 6>>, <<90, 6>>,
       <<120, 8>>, <<135, 2>>, <<150, 3>>, <<180, 8>> >>

----------------------------------------------------------------------------
(* Calls of the root finders on a synthetic ephemeris: the body SUN moves one
   degree a day from longitude 0 at instant 0, the body PLUTO stays at
   longitude 0.  A day has 23 * 1024 ticks, so that the 23 sampling intervals
   of a window of whole days and the ten halvings of one are whole ticks. *)

EfemerideBusca ==
    [dia |-> 23 * 1024,
     corpos |-> (SUN :> [lon0 |-> 0, num |-> 3125, den |-> 736])
                @@ (PLUTO :> [lon0 |-> 0, num |-> 0, den |-> 1])]

(* first day and length in days of the windows searched *)
InicioBusca == {0, 10, 20, 85, 350}
LarguraBusca == {1, 23, 46, 400}

ArgsBusca ==
    {[jd_inicio |-> i * EfemerideBusca.dia,
      jd_fim |-> (i + w) * EfemerideBusca.dia,
      planeta1 |-> SUN,
      planeta2 |-> IF fixo THEN 0 ELSE PLUTO,
      angulo_aspecto |-> ORBES_PADRAO[k][1] * GRAU,
      orbe |-> ORBES_PADRAO[k][2] * GRAU,
      eh_ponto_fixo |-> fixo] :
        i \in InicioBusca, w \in LarguraBusca,
        k \in 1..Len(ORBES_PADRAO), fixo \in BOOLEAN}

(* windows of 400 days in which the Sun squares a fixed point twice: near
   the second sample (the square is exact ponto hundredths of a degree
   before or after it) and, 180 days later, near the twelfth *)
ArgsDeDoisMinimos ==
    {LET amostra == i * EfemerideBusca.dia + (400 * EfemerideBusca.dia) \div 23
     IN  [jd_inicio |-> i * EfemerideBusca.dia,
          jd_fim |-> (i + 400) * EfemerideBusca.dia,
          planeta1 |-> SUN,
          planeta2 |-> (3125 * (amostra \div 736) + ponto * (GRAU \div 100)
                        + 270 * GRAU) % VOLTA,
          angulo_aspecto |-> 90 * GRAU,
          orbe |-> 6 * GRAU,
          eh_ponto_fixo |-> TRUE] :
        i \in {0, 10}, ponto \in {0 - 609, 0, 300}}

ChamadasDeTransito ==
    {<<EfemerideBusca,
       [metodo |-> "buscar_transito_exato", pc |-> "chamada", a |-> a,
        busca |-> <<>>]>> : a \in ArgsBusca \cup ArgsDeDoisMinimos}

(* Calls of buscar_mudanca_signo_exata on the two samples, one cadence
   apart, between which a body passes from Aries to Taurus.  The cadence has
   2^21 ticks, so that its twenty halvings are whole ticks.  Every body moves
   one unit of angle each den ticks, den giving about its speed (in
   hundredths of a degree a day); it reaches 30 degrees at a multiple of
   den. *)
TicksDaCadencia == 2 ^ 21

(* body, its cadence (determinar_intervalo, in two-hundredths of a day) and
   its speed *)
CorposDoIngresso ==
    {<<MOON, 1, 1300>>, <<VENUS, 4, 120>>, <<SUN, 10, 100>>,
     <<JUPITER, 20, 20>>, <<SATURN, 40, 10>>, <<PLUTO, 100, 2>>}

(* how many ticks after the first sample the boundary is reached, at the
   earliest *)
AtrasoDoIngresso ==
    {0, 1000, TicksDaCadencia \div 4, TicksDaCadencia \div 2,
     3 * (TicksDaCadencia \div 4), TicksDaCadencia - 3000}

ChamadasDeIngresso ==
    {LET dia == (200 \div c[2]) * TicksDaCadencia
         den == dia \div (c[3] * (GRAU \div 100))
         jd1 == dia
         cruzamento == den * ((jd1 + x) \div den + 1)
     IN  <<[dia |-> dia,
            corpos |-> (c[1] :> Movimento(30 * GRAU, cruzamento, 1, den))],
           [metodo |-> "buscar_mudanca_signo_exata", pc |-> "chamada",
            jd1 |-> jd1, jd2 |-> jd1 + TicksDaCadencia, planeta |-> c[1],
            signo_saida |-> 0, busca |-> <<>>]>> :
        c \in CorposDoIngresso, x \in AtrasoDoIngresso}

(* a call of buscar_transito_exato, from the call to the return *)
chamar_buscar_transito_exato ==
    /\ exec.metodo = "buscar_transito_exato"
    /\ exec.pc = "chamada"
    /\ exec' = [exec EXCEPT !.pc = "retorno", !.busca = Busca(exec.a)]
    /\ UNCHANGED <<deteccoes, ingressos, transitos, mudancas_signo, voc_periodos,
                   eventos_astral, entrada, op, efemeride>>

(* a call of buscar_mudanca_signo_exata, from the call to the return *)
chamar_buscar_mudanca_signo_exata ==
    /\ exec.metodo = "buscar_mudanca_signo_exata"
    /\ exec.pc = "chamada"
    /\ exec' = [exec EXCEPT !.pc = "retorno",
                            !.busca = BuscaDeSigno(exec.jd1, exec.jd2, exec.planeta,
                                                   exec.signo_saida)]
    /\ UNCHANGED <<deteccoes, ingressos, transitos, mudancas_signo, voc_periodos,
                   eventos_astral, entrada, op, efemeride>>

InitBusca ==
    /\ deteccoes = <<>>
    /\ ingressos = <<>>
    /\ transitos = <<>>
    /\ mudancas_signo = <<>>
    /\ voc_periodos = <<>>
    /\ eventos_astral = <<>>
    /\ entrada = <<>>
    /\ op = "__init__"
    /\ \E ch \in ChamadasDeTransito \cup ChamadasDeIngresso :
           efemeride = ch[1] /\ exec = ch[2]

NextBusca ==
    \/ chamar_buscar_transito_exato
    \/ chamar_buscar_mudanca_signo_exata

SpecBusca == InitBusca /\ [][NextBusca]_vars

----------------------------------------------------------------------------
(* The scan of calcular_transitos over a synthetic ephemeris.  efemeride
   holds the chart too: jd is self.jd, pontos_fixos is self.pontos_fixos (a
   list of names and longitudes, in the order of the dict); calc_ut raises
   for an instant after efemeride.ate, the end of the ephemeris data.  exec
   holds dias_margem and the locals of the method: the window, the position
   n in the loops over pairs, points and aspects, and jd_atual. *)

(* a provider that answers for every instant *)
FalhaNunca(jd) == FALSE

Falha(jd) == jd > efemeride.ate

PLANETAS_MOVEIS == {MOON, MERCURY, VENUS, MARS}

(* lines 91-106, in ticks; the table intervalos is in two-hundredths of a
   day *)
determinar_intervalo(planeta1, planeta2) ==
    LET planeta_lento == Max({planeta1, planeta2})
        intervalos == (MOON :> 1) @@ (MERCURY :> 4) @@ (VENUS :> 4)
                      @@ (SUN :> 10) @@ (MARS :> 10) @@ (JUPITER :> 20)
                      @@ (SATURN :> 40) @@ (URANUS :> 100) @@ (NEPTUNE :> 100)
                      @@ (PLUTO :> 100) @@ (TRUE_NODE :> 40)
        ducentesimos == IF planeta_lento \in DOMAIN intervalos
                        THEN intervalos[planeta_lento] ELSE 100
    IN  ducentesimos * (efemeride.dia \div 200)

(* PLANETAS, restricted to the bodies of the ephemeris *)
planetas_list == SelectSeq(PLANETAS, LAMBDA p : p.code \in DOMAIN efemeride.corpos)

(* the pairs (i, j), i < j, of lines 444-445, in the order of the loops *)
Pares(N) ==
    LET S == {q \in (1..N) \X (1..N) : q[1] < q[2]}
        Antes(q, r) == q[1] < r[1] \/ (q[1] = r[1] /\ q[2] < r[2])
    IN  [n \in 1..Cardinality(S) |->
            CHOOSE r \in S : Cardinality({q \in S : Antes(q, r)}) = n - 1]

(* lines 444-448: what the loops over the pairs of bodies and the aspects
   fix for one while loop *)
AlvosDePlanetas ==
    LET pares == Pares(Len(planetas_list))
        A == Len(ORBES_PADRAO)
    IN  [n \in 1..Len(pares) * A |->
            LET par == pares[((n - 1) \div A) + 1]
                asp == ORBES_PADRAO[((n - 1) % A) + 1]
                p1 == planetas_list[par[1]]
                p2 == planetas_list[par[2]]
            IN  [planeta1 |-> p1.code, planeta2 |-> p2.code,
                 transito_p2 |-> p2.code, nome2 |-> Juntar(p2.nome),
                 aspecto_deg |-> asp[1], orbe |-> asp[2],
                 eh_ponto_fixo |-> FALSE,
                 intervalo |-> determinar_intervalo(p1.code, p2.code)]]

(* lines 471-475: the same for the loops over the fixed points, the moving
   bodies and the aspects *)
AlvosDePontos ==
    LET moveis == SelectSeq(planetas_list, LAMBDA p : p.code \in PLANETAS_MOVEIS)
        A == Len(ORBES_PADRAO)
        M == Len(moveis)
    IN  [n \in 1..Len(efemeride.pontos_fixos) * M * A |->
            LET ponto_obj == efemeride.pontos_fixos[((n - 1) \div (M * A)) + 1]
                planeta_code == moveis[(((n - 1) \div A) % M) + 1].code
                asp == ORBES_PADRAO[((n - 1) % A) + 1]
            IN  [planeta1 |-> planeta_code, planeta2 |-> ponto_obj.lon,
                 transito_p2 |-> PONTO_FIXO, nome2 |-> ponto_obj.nome,
                 aspecto_deg |-> asp[1], orbe |-> asp[2],
                 eh_ponto_fixo |-> TRUE,
                 intervalo |-> determinar_intervalo(planeta_code, planeta_code)]]

Alvos == AlvosDePlanetas \o AlvosDePontos

(* the arguments of the search of the step of alvo from jd_atual to jd_prox
   (lines 461-463 and 486-488) *)
ArgsDoPasso(alvo, jd_atual, jd_prox) ==
    [jd_inicio |-> jd_atual, jd_fim |-> jd_prox,
     planeta1 |-> alvo.planeta1, planeta2 |-> alvo.planeta2,
     angulo_aspecto |-> alvo.aspecto_deg * GRAU, orbe |-> alvo.orbe * GRAU,
     eh_ponto_fixo |-> alvo.eh_ponto_fixo]

(* a step that is not cut at the end of the window *)
ProximoSemLimite(jd_atual, intervalo, jd_fim) == jd_atual + intervalo

(* lines 452 and 478: jd_prox *)
Proximo(jd_atual, intervalo, jd_fim) == Min({jd_atual + intervalo, jd_fim})

(* lines 451-469 (and 477-493): one iteration of the while loop of alvo, from
   jd_atual; what it evaluates and what it appends *)
Passo(alvo, jd_atual, jd_inicio, jd_fim) ==
    LET jd_prox == Proximo(jd_atual, alvo.intervalo, jd_fim)
        a == ArgsDoPasso(alvo, jd_atual, jd_prox)
        gap_atual == Abs(calcular_orbe_atual(jd_atual, a))
        gap_prox == Abs(calcular_orbe_atual(jd_prox, a))
        chamou == Min({gap_atual, gap_prox}) <= a.orbe
        retorno == IF chamou THEN buscar_transito_exato(a) ELSE <<>>
        aceito == chamou /\ Aceito(retorno, jd_inicio, jd_fim)
        pos1_ex == calcular_posicao_planeta(retorno[1], alvo.planeta1)
        pos2_ex == IF alvo.eh_ponto_fixo THEN alvo.planeta2
                   ELSE calcular_posicao_planeta(retorno[1], alvo.planeta2)
    IN  [jd_atual |-> jd_atual, jd_prox |-> jd_prox, alvo |-> alvo,
         gap_atual |-> gap_atual, gap_prox |-> gap_prox,
         chamou |-> chamou, retorno |-> retorno, aceito |-> aceito,
         novos |-> IF aceito
                   THEN <<Transito(retorno[1], alvo.planeta1, alvo.transito_p2,
                                   100 * alvo.aspecto_deg, Centesimos(pos1_ex),
                                   Centesimos(pos2_ex), Milesimos(retorno[2]),
                                   "aspecto", alvo.nome2)>>
                   ELSE <<>>]

(* timedelta(days=dias_margem) of lines 439-440 and 499-500, in ticks *)
timedelta(dias_margem) == (dias_margem[1] * efemeride.dia) \div dias_margem[2]

(* lines 438-449: the list is cleared and the window is computed *)
ct_inicio ==
    /\ exec.metodo = "calcular_transitos"
    /\ exec.pc = "chamada"
    /\ LET jd_inicio == efemeride.jd - timedelta(exec.dias_margem)
           jd_fim == efemeride.jd + timedelta(exec.dias_margem)
       IN  exec' = [exec EXCEPT !.jd_inicio = jd_inicio, !.jd_fim = jd_fim,
                                !.n = 1, !.jd_atual = jd_inicio,
                                !.pc = IF jd_inicio < jd_fim /\ Alvos # <<>>
                                       THEN "laco" ELSE "deduplicar"]
    /\ transitos' = <<>>
    /\ UNCHANGED <<deteccoes, ingressos, mudancas_signo, voc_periodos,
                   eventos_astral, entrada, op, efemeride>>

(* lines 450-469 and 476-493: one iteration of a while loop, and the loop
   headers that follow it; an exception of calc_ut leaves the method *)
ct_passo ==
    /\ exec.metodo = "calcular_transitos"
    /\ exec.pc = "laco"
    /\ \E passo \in {Passo(Alvos[exec.n], exec.jd_atual, exec.jd_inicio, exec.jd_fim)} :
           IF Falha(passo.jd_prox)
           THEN /\ exec' = [exec EXCEPT !.pc = "excecao"]
                /\ UNCHANGED transitos
           ELSE /\ transitos' = transitos \o passo.novos
                /\ exec' =
                     IF passo.jd_prox < exec.jd_fim
                     THEN [exec EXCEPT !.jd_atual = passo.jd_prox, !.passo = passo]
                     ELSE IF exec.n < Len(Alvos)
                          THEN [exec EXCEPT !.n = @ + 1, !.jd_atual = exec.jd_inicio,
                                            !.passo = passo]
                          ELSE [exec EXCEPT !.pc = "deduplicar", !.passo = passo]
    /\ UNCHANGED <<deteccoes, ingressos, mudancas_signo, voc_periodos,
                   eventos_astral, entrada, op, efemeride>>

(* line 494 *)
ct_fim ==
    /\ exec.metodo = "calcular_transitos"
    /\ exec.pc = "deduplicar"
    /\ transitos' = deduplicate_transitos(transitos, (15 * efemeride.dia) \div 100)
    /\ entrada' = transitos
    /\ op' = "calcular_transitos"
    /\ exec' = [exec EXCEPT !.pc = "retorno"]
    /\ UNCHANGED <<deteccoes, ingressos, mudancas_signo, voc_periodos,
                   eventos_astral, efemeride>>

----------------------------------------------------------------------------
(* The sampling of calcular_mudancas_signo over the same ephemeris.  exec
   holds dias_margem, the window, the position n in the loop over the bodies,
   jd_atual and signo_anterior (-1 for None). *)

(* lines 507-518: one iteration of the while loop of the body corpo, from
   jd_atual; what it appends *)
PassoDeSigno(corpo, jd_atual, signo_anterior, jd_inicio, jd_fim) ==
    LET intervalo == determinar_intervalo(corpo.code, corpo.code)
        signo == signo_atual(jd_atual, corpo.code)
        mudou == signo_anterior # 0 - 1 /\ signo # signo_anterior
        jd_mudanca == buscar_mudanca_signo_exata(jd_atual - intervalo, jd_atual,
                                                 corpo.code, signo_anterior)
    IN  [jd_atual |-> jd_atual, jd_prox |-> jd_atual + intervalo,
         signo_atual |-> signo, mudou |-> mudou,
         novos |-> IF mudou /\ jd_inicio <= jd_mudanca /\ jd_mudanca <= jd_fim
                   THEN <<EventoDeIngresso([jd |-> jd_mudanca, code |-> corpo.code,
                                            signo_atual |-> signo])>>
                   ELSE <<>>]

(* lines 498-506: the list is cleared and the window is computed *)
cms_inicio ==
    /\ exec.metodo = "calcular_mudancas_signo"
    /\ exec.pc = "chamada"
    /\ LET jd_inicio == efemeride.jd - timedelta(exec.dias_margem)
           jd_fim == efemeride.jd + timedelta(exec.dias_margem)
           vazio == jd_inicio >= jd_fim \/ planetas_list = <<>>
       IN  /\ exec' = [exec EXCEPT !.jd_inicio = jd_inicio, !.jd_fim = jd_fim,
                                   !.n = 1, !.jd_atual = jd_inicio,
                                   !.signo_anterior = 0 - 1,
                                   !.pc = IF vazio THEN "retorno" ELSE "laco"]
           /\ op' = IF vazio THEN "calcular_mudancas_signo" ELSE op
    /\ mudancas_signo' = <<>>
    /\ UNCHANGED <<deteccoes, ingressos, transitos, voc_periodos, eventos_astral,
                   entrada, efemeride>>

(* lines 506-518: one iteration of the while loop, and the loop headers that
   follow it; an exception of calc_ut leaves the method *)
cms_passo ==
    /\ exec.metodo = "calcular_mudancas_signo"
    /\ exec.pc = "laco"
    /\ LET passo == PassoDeSigno(planetas_list[exec.n], exec.jd_atual,
                                 exec.signo_anterior, exec.jd_inicio, exec.jd_fim)
           fim == passo.jd_prox >= exec.jd_fim /\ exec.n = Len(planetas_list)
       IN  IF Falha(exec.jd_atual)
           THEN /\ exec' = [exec EXCEPT !.pc = "excecao"]
                /\ UNCHANGED <<mudancas_signo, op>>
           ELSE /\ mudancas_signo' = mudancas_signo \o passo.novos
                /\ op' = IF fim THEN "calcular_mudancas_signo" ELSE op
                /\ exec' =
                     IF passo.jd_prox < exec.jd_fim
                     THEN [exec EXCEPT !.jd_atual = passo.jd_prox,
                                       !.signo_anterior = passo.signo_atual,
                                       !.passo = passo]
                     ELSE IF ~fim
                          THEN [exec EXCEPT !.n = @ + 1, !.jd_atual = exec.jd_inicio,
                                            !.signo_anterior = 0 - 1,
                                            !.passo = passo]
                          ELSE [exec EXCEPT !.pc = "retorno", !.passo = passo]
    /\ UNCHANGED <<deteccoes, ingressos, transitos, voc_periodos, eventos_astral,
                   entrada, efemeride>>

----------------------------------------------------------------------------
(* The callers of the two scans: gerar_relatorio (lines 631-642), called by
   the handler of /api/calcular (lines 1031-1045).  exec.chamador is
   "gerar_relatorio" for a call that comes from there and "" for a direct
   call; exec.resposta is the answer of the handler. *)

(* lines 636-637: calcular_transitos returned, calcular_mudancas_signo is
   called next, both with the default dias_margem *)
gerar_relatorio ==
    /\ exec.chamador = "gerar_relatorio"
    /\ exec.metodo = "calcular_transitos"
    /\ exec.pc = "retorno"
    /\ exec' = [exec EXCEPT !.metodo = "calcular_mudancas_signo", !.pc = "chamada"]
    /\ UNCHANGED <<deteccoes, ingressos, transitos, mudancas_signo, voc_periodos,
                   eventos_astral, entrada, op, efemeride>>

(* lines 1043-1045: the report is answered with status ok; an exception that
   left gerar_relatorio is answered with status erro and HTTP code 400 *)
calcular ==
    /\ exec.chamador = "gerar_relatorio"
    /\ \/ exec.pc = "excecao"
       \/ exec.metodo = "calcular_mudancas_signo" /\ exec.pc = "retorno"
    /\ exec' = [exec EXCEPT
                  !.pc = "respondido",
                  !.resposta = IF exec.pc = "excecao"
                               THEN [status |-> "erro", codigo |-> 400,
                                     relatorio |-> FALSE]
                               ELSE [status |-> "ok", codigo |-> 200,
                                     relatorio |-> TRUE]]
    /\ UNCHANGED <<deteccoes, ingressos, transitos, mudancas_signo, voc_periodos,
                   eventos_astral, entrada, op, efemeride>>

----------------------------------------------------------------------------
(* The charts scanned, each with the declinations of its bodies: the Moon and
   Pluto parallel, Neptune and Pluto contraparallel, the others neither.  A
   day has 200 * 23 * 1024 ticks: every cadence of
   determinar_intervalo is a whole number of ticks, and so are the 23
   sampling intervals of a step and their ten halvings.  The chart is cast at
   day 3, so that the default window runs from day 1 to day 5. *)

DiaDaVarredura == 200 * 23 * 1024

(* the ephemeris data end after the window, or inside it *)
AteOnde == {10 * DiaDaVarredura, (7 * DiaDaVarredura) \div 2}

(* the Moon, 13.2 degrees a day, reaches 45 degrees from Pluto (which stays at
   0 degrees) in the step of the pair that begins at day 2, d eighths of a
   step (of half a day) after its beginning *)
LuaEPlutao(d) ==
    [corpos |-> (MOON :> Movimento(45 * GRAU,
                                   2 * DiaDaVarredura + (d * DiaDaVarredura) \div 16,
                                   7, 25))
                @@ (PLUTO :> Parado(0)),
     declinacoes |-> (MOON :> 20 * GRAU) @@ (PLUTO :> 20 * GRAU),
     pontos_fixos |-> <<>>]

(* Neptune gains a hundredth of a degree a day on Pluto and reaches 90
   degrees from it d eighths of a step after day 3 *)
NetunoEPlutao(d) ==
    [corpos |-> (NEPTUNE :> Movimento(90 * GRAU,
                                      3 * DiaDaVarredura + (d * DiaDaVarredura) \div 16,
                                      1, 4710))
                @@ (PLUTO :> Parado(0)),
     declinacoes |-> (NEPTUNE :> 5 * GRAU) @@ (PLUTO :> 0 - 5 * GRAU),
     pontos_fixos |-> <<>>]

(* Venus, 1.2 degrees a day, reaches 60 degrees from the ascendant (at 100
   degrees) a quarter of a day after day 3; Pluto is far from both *)
VenusEAscendente ==
    [corpos |-> (VENUS :> Movimento(160 * GRAU,
                                    3 * DiaDaVarredura + DiaDaVarredura \div 4,
                                    1, 39))
                @@ (PLUTO :> Parado(290 * GRAU)),
     declinacoes |-> (VENUS :> 10 * GRAU) @@ (PLUTO :> 0 - 23 * GRAU),
     pontos_fixos |-> <<[nome |-> "ASC", lon |-> 100 * GRAU]>>]

(* the same chart with the midheaven six hundredths of a degree after the
   ascendant: Venus reaches 60 degrees from it a twentieth of a day later *)
VenusAscendenteEMeioDoCeu ==
    [VenusEAscendente EXCEPT
        !.pontos_fixos = <<[nome |-> "ASC", lon |-> 100 * GRAU],
                           [nome |-> "MC", lon |-> 100 * GRAU + 6 * (GRAU \div 100)]>>]

(* Pluto, two hundredths of a degree a day, enters Aquarius (300 degrees) d
   eighths of a step (of half a day) before day 5, the end of the default
   window; Neptune is at rest in Pisces *)
PlutaoEmAquario(d) ==
    [corpos |-> (NEPTUNE :> Parado(357 * GRAU))
                @@ (PLUTO :> Movimento(300 * GRAU,
                                       5 * DiaDaVarredura - (d * DiaDaVarredura) \div 16,
                                       1, 2355)),
     declinacoes |-> (NEPTUNE :> 0 - 2 * GRAU) @@ (PLUTO :> 0 - 22 * GRAU),
     pontos_fixos |-> <<>>]

Mapas ==
    {LuaEPlutao(d) : d \in {0, 1, 4}}
    \cup {NetunoEPlutao(d) : d \in {0, 1, 4}}
    \cup {VenusEAscendente, VenusAscendenteEMeioDoCeu}
    \cup {PlutaoEmAquario(d) : d \in {0, 4, 8, 12}}

Efemerides ==
    {[dia |-> DiaDaVarredura, jd |-> 3 * DiaDaVarredura, ate |-> ate,
      corpos |-> m.corpos, declinacoes |-> m.declinacoes,
      pontos_fixos |-> m.pontos_fixos] :
        m \in Mapas, ate \in AteOnde}

(* dias_margem of the calls, each a fraction <<numerator, denominator>> of a
   day: the default, two that give an empty window, and five sixteenths of a
   day, a window that no cadence divides *)
Margens == {<<2, 1>>, <<0, 1>>, <<0 - 1, 1>>, <<5, 16>>}

(* the calls: the two methods called directly, and the request to
   /api/calcular, whose gerar_relatorio begins the scans at line 636 *)
Chamadas ==
    ({"calcular_transitos", "calcular_mudancas_signo"} \X Margens \X {""})
    \cup {<<"calcular_transitos", <<2, 1>>, "gerar_relatorio">>}

InitVarredura ==
    /\ deteccoes = <<>>
    /\ ingressos = <<>>
    /\ transitos = <<>>
    /\ mudancas_signo = <<>>
    /\ voc_periodos = <<>>
    /\ eventos_astral = <<>>
    /\ entrada = <<>>
    /\ op = "__init__"
    /\ efemeride \in Efemerides
    /\ exec \in {[metodo |-> ch[1], pc |-> "chamada",
                  dias_margem |-> ch[2], jd_inicio |-> 0, jd_fim |-> 0,
                  n |-> 0, jd_atual |-> 0, signo_anterior |-> 0 - 1,
                  passo |-> <<>>, chamador |-> ch[3], resposta |-> <<>>] :
                    ch \in Chamadas}

NextVarredura ==
    \/ ct_inicio
    \/ ct_passo
    \/ ct_fim
    \/ cms_inicio
    \/ cms_passo
    \/ gerar_relatorio
    \/ calcular

SpecVarredura == InitVarredura /\ [][NextVarredura]_vars

----------------------------------------------------------------------------
(* Properties of _deduplicate_transitos, stated on entrada (the list the
   latest pass found) and transitos (the list it left) *)

Deduplicado == op \in {"calcular_transitos", "_deduplicate_transitos"}

(* a and b belong to one sub-cluster of the events of key chave in s: no two
   consecutive instants of that key between a and b are more than the window
   apart *)
Encadeados(s, chave, a, b) ==
    LET T == {s[i].jd_exato : i \in {j \in 1..Len(s) : Chave(s[j]) = chave}}
    IN  \A x \in T : (a <= x /\ x < b) =>
            \E y \in T : x < y /\ y <= x + JANELA_TEMPO

MesmoSubcluster(s, e, f) ==
    /\ Chave(e) = Chave(f)
    /\ IF e.jd_exato <= f.jd_exato
       THEN Encadeados(s, Chave(e), e.jd_exato, f.jd_exato)
       ELSE Encadeados(s, Chave(e), f.jd_exato, e.jd_exato)

(* C1: a second pass of _deduplicate_transitos over the output of a pass
   leaves exactly the same sequence of events, in the same order *)
C1_Idempotente ==
    op = "_deduplicate_transitos" => transitos = entrada

(* C2: after _deduplicate_transitos no two kept events of the same
   (planeta1, planeta2, aspect-or-kind) key have instants within the cluster
   window of each other *)
C2_UmPorJanela ==
    Deduplicado =>
        \A i, j \in 1..Len(transitos) :
            (i # j /\ Chave(transitos[i]) = Chave(transitos[j])) =>
                Abs(transitos[i].jd_exato - transitos[j].jd_exato) > JANELA_TEMPO

C2_Cadeia ==
    /\ op = "calcular_transitos"
    /\ \E i, j, k \in 1..Len(entrada) :
          /\ Chave(entrada[i]) = Chave(entrada[j])
          /\ Chave(entrada[j]) = Chave(entrada[k])
          /\ entrada[i].jd_exato < entrada[j].jd_exato
          /\ entrada[j].jd_exato < entrada[k].jd_exato
          /\ entrada[j].jd_exato - entrada[i].jd_exato <= JANELA_TEMPO
          /\ entrada[k].jd_exato - entrada[j].jd_exato <= JANELA_TEMPO
          /\ entrada[k].jd_exato - entrada[i].jd_exato > JANELA_TEMPO
          /\ Cardinality({n \in 1..Len(transitos) :
                             Chave(transitos[n]) = Chave(entrada[i])}) = 1

(* C3: of every sub-cluster of the input exactly one event is kept, and no
   event of the sub-cluster has a smaller residual than the kept one *)
C3_MelhorDoSubcluster ==
    Deduplicado =>
        \A i \in 1..Len(entrada) :
            LET membros == {m \in 1..Len(entrada) :
                               MesmoSubcluster(entrada, entrada[i], entrada[m])}
                mantidos == {n \in 1..Len(transitos) :
                               MesmoSubcluster(entrada, entrada[i], transitos[n])}
            IN  /\ Cardinality(mantidos) = 1
                /\ \A n \in mantidos : \E m \in membros : transitos[n] = entrada[m]
                /\ \A n \in mantidos : \A m \in membros :
                       transitos[n].orbe <= entrada[m].orbe

C3_DoisNaJanela ==
    /\ op = "calcular_transitos"
    /\ Len(entrada) = 2
    /\ Chave(entrada[1]) = Chave(entrada[2])
    /\ entrada[2].jd_exato - entrada[1].jd_exato = Vigesimo
    /\ entrada[1].orbe = 2
    /\ entrada[2].orbe = 1
    /\ transitos = <<entrada[2]>>

(* C4: the output of _deduplicate_transitos is a sub-multiset of its input:
   every kept event is an input event with all its fields, kept at most as
   often as the input holds it, and the output is never longer *)
C4_SubMulticonjunto ==
    Deduplicado =>
        /\ Len(transitos) <= Len(entrada)
        /\ \A n \in 1..Len(transitos) :
               Ocorrencias(transitos, transitos[n]) <= Ocorrencias(entrada, transitos[n])

C4_Descartou ==
    /\ op = "calcular_transitos"
    /\ Len(transitos) >= 2
    /\ Len(transitos) < Len(entrada)

(* C5: after _deduplicate_transitos, and so after calcular_transitos,
   self.transitos is ordered by non-decreasing jd_exato *)
C5_TransitosOrdenados ==
    Deduplicado => Ordenado(transitos)

C5_EntradaDesordenada ==
    /\ op = "calcular_transitos"
    /\ ~Ordenado(entrada)
    /\ Len(transitos) >= 2

----------------------------------------------------------------------------
(* Properties of calcular_voc_lua and compilar_eventos_astral *)

EnvolveLua(t) == t.planeta1 = MOON \/ t.planeta2 = MOON

(* the Moon's sign ingresses held in self.mudancas_signo: entry i of
   mudancas_signo is the event of ingressos[i] *)
IngressosDaLuaEm(ms) == {i \in 1..Len(ms) : ingressos[i].code = MOON}

(* C6: calcular_voc_lua never emits a void period whose end instant
   precedes its start instant *)
C6_FimNaoPrecedeInicio ==
    \A n \in 1..Len(voc_periodos) :
        voc_periodos[n].jd_inicio <= voc_periodos[n].jd_fim

(* C7: every void period belongs to a Moon ingress that has a transit
   involving the Moon strictly before it; a Moon ingress without one, and an
   ingress of another body, yields none, so there are never more periods
   than Moon ingresses *)
C7_SoIngressoDaLuaComAspecto ==
    op = "calcular_voc_lua" =>
        LET lua == IngressosDaLuaEm(mudancas_signo)
            comAspecto == {i \in lua : \E k \in 1..Len(transitos) :
                              /\ EnvolveLua(transitos[k])
                              /\ transitos[k].jd_exato < mudancas_signo[i].jd_exato}
        IN  /\ Len(voc_periodos) <= Cardinality(lua)
            /\ Len(voc_periodos) = Cardinality(comAspecto)
            /\ \A n \in 1..Len(voc_periodos) :
                   \E i \in comAspecto :
                       voc_periodos[n].jd_fim = mudancas_signo[i].jd_exato

C7_IngressosSemPeriodo ==
    /\ op = "calcular_voc_lua"
    /\ Len(voc_periodos) = 1
    /\ Cardinality(IngressosDaLuaEm(mudancas_signo)) = 2
    /\ \E i \in 1..Len(mudancas_signo) : ingressos[i].code = PLUTO
    /\ \E k \in 1..Len(transitos) : ~EnvolveLua(transitos[k])

(* C8: the void period of a Moon ingress starts exactly one second after the
   latest transit involving the Moon strictly before the ingress and ends
   exactly at the ingress *)
C8_DoUltimoAspectoAoIngresso ==
    op = "calcular_voc_lua" =>
        \A i \in IngressosDaLuaEm(mudancas_signo) :
            LET antes == {k \in 1..Len(transitos) :
                             /\ EnvolveLua(transitos[k])
                             /\ transitos[k].jd_exato < mudancas_signo[i].jd_exato}
                doIngresso == {n \in 1..Len(voc_periodos) :
                                  voc_periodos[n].jd_fim = mudancas_signo[i].jd_exato}
            IN  antes # {} =>
                    /\ Cardinality(doIngresso) = 1
                    /\ \A n \in doIngresso : \E k \in antes :
                           /\ voc_periodos[n].jd_inicio = transitos[k].jd_exato + UmSegundo
                           /\ \A m \in antes :
                                  transitos[m].jd_exato <= transitos[k].jd_exato

C8_DoisAspectosAntes ==
    /\ op = "calcular_voc_lua"
    /\ Len(voc_periodos) >= 1
    /\ \E i \in IngressosDaLuaEm(mudancas_signo) : \E k, m \in 1..Len(transitos) :
          /\ EnvolveLua(transitos[k])
          /\ EnvolveLua(transitos[m])
          /\ transitos[k].jd_exato < transitos[m].jd_exato
          /\ transitos[m].jd_exato < mudancas_signo[i].jd_exato

(* C9: no sign ingress of the Moon lies strictly between the start and the
   end of a void period *)
C9_SemIngressoNoPeriodo ==
    op = "calcular_voc_lua" =>
        \A n \in 1..Len(voc_periodos) :
            \A i \in IngressosDaLuaEm(mudancas_signo) :
                ~(/\ voc_periodos[n].jd_inicio < mudancas_signo[i].jd_exato
                  /\ mudancas_signo[i].jd_exato < voc_periodos[n].jd_fim)

ContarPorInstante(s, tipo, jd) ==
    Cardinality({i \in 1..Len(s) : s[i].tipo = tipo /\ s[i].jd_exato = jd})

(* C10: after compilar_eventos_astral, eventos_astral is ordered by
   non-decreasing jd_exato and holds exactly one event per transit, per sign
   ingress and per void period, and nothing else *)
C10_CompiladosOrdenadosECompletos ==
    op = "compilar_eventos_astral" =>
        /\ Ordenado(eventos_astral)
        /\ Len(eventos_astral) =
               Len(transitos) + Len(mudancas_signo) + Len(voc_periodos)
        /\ \A k \in 1..Len(transitos) :
               ContarPorInstante(eventos_astral, "aspecto", transitos[k].jd_exato)
                   = Cardinality({m \in 1..Len(transitos) :
                                     transitos[m].jd_exato = transitos[k].jd_exato})
        /\ \A i \in 1..Len(mudancas_signo) :
               Ocorrencias(eventos_astral, mudancas_signo[i])
                   = Ocorrencias(mudancas_signo, mudancas_signo[i])
        /\ \A n \in 1..Len(voc_periodos) :
               ContarPorInstante(eventos_astral, "voc", voc_periodos[n].jd_inicio)
                   = Cardinality({m \in 1..Len(voc_periodos) :
                                     voc_periodos[m].jd_inicio = voc_periodos[n].jd_inicio})

C10_TresOrigens ==
    /\ op = "compilar_eventos_astral"
    /\ Len(transitos) >= 2
    /\ Len(mudancas_signo) >= 2
    /\ Len(voc_periodos) >= 1
    /\ \E i \in 1..Len(mudancas_signo) : \E k \in 1..Len(transitos) :
           mudancas_signo[i].jd_exato < transitos[k].jd_exato

----------------------------------------------------------------------------
(* Properties of buscar_transito_exato, stated on the call that returned *)

BuscaRetornou == exec.metodo = "buscar_transito_exato" /\ exec.pc = "retorno"

(* every coarse sample of the call is farther from the aspect than one and a
   half times the orb *)
AmostrasLonge(a) ==
    \A i \in 1..Len(Amostras(a)) : 2 * Amostras(a)[i].orbe > 3 * a.orbe

(* C11: when the smallest coarse |separation - aspect| exceeds 1.5 times the
   orb, buscar_transito_exato returns (0.0, 999.0) without any bisection, and
   the test of the scan never accepts that pair, whatever the scan window *)
C11_SentinelaSemBissectar ==
    (BuscaRetornou /\ AmostrasLonge(exec.a)) =>
        /\ exec.busca.retorno = NaoEncontrado
        /\ exec.busca.iteracoes = 0
        /\ exec.busca.bracket = <<>>
        /\ \A jd_inicio \in {0, exec.a.jd_inicio} :
               ~Aceito(exec.busca.retorno, jd_inicio, exec.a.jd_fim)

C11_AmostrasForaDoLimite ==
    /\ BuscaRetornou
    /\ AmostrasLonge(exec.a)
    /\ \E i \in 1..Len(Amostras(exec.a)) :
           Amostras(exec.a)[i].orbe < 2 * exec.a.orbe
    /\ exec.busca.retorno = NaoEncontrado

----------------------------------------------------------------------------
(* Properties of the scan of calcular_transitos.  exec.passo is the latest
   iteration of a while loop: its step, what the search returned and what
   it appended. *)

Varrendo == exec.metodo = "calcular_transitos" /\ exec.pc \in {"laco", "deduplicar"}

Varrido == exec.metodo = "calcular_transitos" /\ exec.pc = "retorno"

(* C12: during the scan and after calcular_transitos every Transito of
   self.transitos has a residual below 0.005 degree and an instant inside
   [jd_inicio, jd_fim]; a search result with a larger residual appends
   nothing and raises nothing *)
C12_ResiduoEJanela ==
    (Varrendo \/ Varrido) =>
        /\ \A i \in 1..Len(transitos) :
               /\ transitos[i].orbe < 5
               /\ exec.jd_inicio <= transitos[i].jd_exato
               /\ transitos[i].jd_exato <= exec.jd_fim
        /\ (exec.passo # <<>> /\ exec.passo.chamou
                /\ exec.passo.retorno[2] >= (5 * GRAU) \div 1000) =>
               exec.passo.novos = <<>>

C12_ResultadoAcimaDoTeto ==
    /\ Varrendo
    /\ exec.passo # <<>>
    /\ exec.passo.chamou
    /\ exec.passo.retorno[1] > 0
    /\ exec.passo.retorno[2] >= (5 * GRAU) \div 1000
    /\ exec.passo.retorno[2] <= exec.passo.alvo.orbe * GRAU
    /\ transitos # <<>>

(* the call over the window of days 0 to 400 for the conjunction, orb 8
   degrees, of the body that moves one degree a day with the one that stays
   at 0 degrees: the separation is zero at day 0 and at day 360 *)
JanelaDe400Dias ==
    /\ BuscaRetornou
    /\ exec.a.jd_inicio = 0
    /\ exec.a.jd_fim = 400 * efemeride.dia
    /\ exec.a.angulo_aspecto = 0
    /\ exec.a.orbe = 8 * GRAU

(* r is a root with a residual below 0.001 degree, within a thousandth of a
   day of day d *)
RaizPertoDe(r, d) ==
    /\ Abs(r[1] - d * efemeride.dia) <= efemeride.dia \div 1000
    /\ r[2] < GRAU \div 1000

(* C13: for that call the root finder returns a root near day 0 and a root
   near day 360, each with a residual below 0.001 degree, and no other root *)
C13_RaizesEmZeroE360 ==
    JanelaDe400Dias =>
        LET raizes == {exec.busca.retorno} \ {NaoEncontrado}
        IN  /\ \E r \in raizes : RaizPertoDe(r, 0)
            /\ \E r \in raizes : RaizPertoDe(r, 360)
            /\ \A r \in raizes : RaizPertoDe(r, 0) \/ RaizPertoDe(r, 360)

(* the separation of alvo is below its aspect at instant jd *)
Aquem(alvo, jd) == calcular_orbe_atual(jd, ArgsDoPasso(alvo, jd, jd)) < 0

RECURSIVE PrimeiroCruzamento(_, _, _)
(* the separation of alvo is on different sides of the aspect at lo and at
   hi: the first instant after lo at which it has left the side of lo *)
PrimeiroCruzamento(alvo, lo, hi) ==
    IF hi - lo <= 1 THEN hi
    ELSE LET meio == (lo + hi) \div 2
         IN  IF Aquem(alvo, meio) = Aquem(alvo, lo)
             THEN PrimeiroCruzamento(alvo, meio, hi)
             ELSE PrimeiroCruzamento(alvo, lo, meio)

(* how far the two bodies of alvo move against each other from lo to hi *)
Percurso(alvo, lo, hi) ==
    LET d1 == calc_ut(hi, alvo.planeta1) - calc_ut(lo, alvo.planeta1)
        d2 == IF alvo.eh_ponto_fixo THEN 0
              ELSE calc_ut(hi, alvo.planeta2) - calc_ut(lo, alvo.planeta2)
    IN  Abs(d1 - d2)

(* the separation of alvo, which moves linearly, crosses the aspect exactly
   once between lo and hi *)
CruzaUmaVez(alvo, lo, hi) ==
    /\ lo < hi
    /\ Aquem(alvo, lo) # Aquem(alvo, hi)
    /\ Percurso(alvo, lo, hi) < 90 * GRAU

(* the events of self.transitos for the pair and the aspect of alvo *)
TransitosDoAlvo(alvo) ==
    SelectSeq(transitos, LAMBDA t : /\ t.planeta1 = alvo.planeta1
                                    /\ t.planeta2 = alvo.transito_p2
                                    /\ t.planeta2_nome = alvo.nome2
                                    /\ t.aspecto = 100 * alvo.aspecto_deg)

(* C14: when the separation of two bodies crosses the square exactly once
   inside the window of two days around the chart, calcular_transitos leaves
   exactly one Transito for that pair and aspect, less than 1e-4 day from the
   crossing and with a residual below 0.005 degree *)
C14_UmTransitoNoCruzamento ==
    (Varrido /\ exec.dias_margem = <<2, 1>>) =>
        \A n \in 1..Len(Alvos) :
            (/\ ~Alvos[n].eh_ponto_fixo
             /\ Alvos[n].aspecto_deg = 90
             /\ CruzaUmaVez(Alvos[n], exec.jd_inicio, exec.jd_fim)) =>
                LET ts == TransitosDoAlvo(Alvos[n])
                    t_expected == PrimeiroCruzamento(Alvos[n], exec.jd_inicio,
                                                     exec.jd_fim)
                IN  /\ Len(ts) = 1
                    /\ Abs(ts[1].jd_exato - t_expected) < efemeride.dia \div 10000
                    /\ ts[1].orbe < 5

(* C15: whatever the cadence of the pair, when the separation equals the
   aspect at some instant of a step of the scan (it is on different sides of
   the aspect at the two ends of the step), one end of the step is within
   the orb and the root finder is invoked for the step *)
C15_PassoComCruzamentoEBuscado ==
    (/\ exec.metodo = "calcular_transitos"
     /\ exec.passo # <<>>
     /\ Aquem(exec.passo.alvo, exec.passo.jd_atual)
            # Aquem(exec.passo.alvo, exec.passo.jd_prox)) =>
                /\ exec.passo.chamou
                /\ \/ exec.passo.gap_atual <= exec.passo.alvo.orbe * GRAU
                   \/ exec.passo.gap_prox <= exec.passo.alvo.orbe * GRAU

----------------------------------------------------------------------------
(* Properties of buscar_mudanca_signo_exata, stated on the call that
   returned *)

SignoRetornou == exec.metodo = "buscar_mudanca_signo_exata" /\ exec.pc = "retorno"

(* the instant at which the body planeta, which moves forward, reaches the
   longitude fronteira *)
CruzamentoVerdadeiro(planeta, fronteira) ==
    LET c == efemeride.corpos[planeta]
    IN  ((fronteira - c.lon0) * c.den + c.num - 1) \div c.num

(* about 1e-10 day, in ticks, rounded down *)
PisoNumerico == ((efemeride.dia - 1) \div 100000) \div 100000

(* C16: for a body that moves forward across a sign boundary between two
   consecutive samples, whatever the cadence, buscar_mudanca_signo_exata
   returns an instant less than about 1e-10 day from the crossing: its twenty
   iterations shrink the bracket below that floor *)
C16_IngressoDentroDoPiso ==
    (SignoRetornou /\ signo_atual(exec.jd1, exec.planeta) = exec.signo_saida
                   /\ signo_atual(exec.jd2, exec.planeta) # exec.signo_saida) =>
        /\ Abs(exec.busca.retorno - CruzamentoVerdadeiro(exec.planeta, 30 * GRAU))
               <= PisoNumerico
        /\ exec.busca.jd2 - exec.busca.jd1 <= PisoNumerico

----------------------------------------------------------------------------
(* Properties of calcular_mudancas_signo *)

SignosCalculados == exec.metodo = "calcular_mudancas_signo" /\ exec.pc = "retorno"

(* the sign boundaries (multiples of 30 degrees, on the longitude before the
   reduction to a turn) that the body code, which moves forward, reaches
   after lo and not after hi *)
FronteirasCruzadas(code, lo, hi) ==
    {k \in 1..24 : /\ calc_ut(lo, code) < k * 30 * GRAU
                   /\ k * 30 * GRAU <= calc_ut(hi, code)}

(* the events of self.mudancas_signo for the entry of corpo into the sign of
   boundary k, with an instant in the sampling step that contains t *)
IngressosNoPasso(corpo, k, t) ==
    LET intervalo == determinar_intervalo(corpo.code, corpo.code)
        inicio == exec.jd_inicio + ((t - exec.jd_inicio - 1) \div intervalo) * intervalo
    IN  {j \in 1..Len(mudancas_signo) :
            /\ mudancas_signo[j].tipo = "entrada_signo"
            /\ mudancas_signo[j].descricao
                   = EventoDeIngresso([jd |-> t, code |-> corpo.code,
                                       signo_atual |-> k % 12]).descricao
            /\ inicio <= mudancas_signo[j].jd_exato
            /\ mudancas_signo[j].jd_exato <= inicio + intervalo}

(* C17: calcular_mudancas_signo finds every sign crossing of the window: for
   a body that changes sign at t, jd_inicio <= t <= jd_fim, t between the
   last sample and jd_fim included, exactly one entrada_signo event of that
   body has its instant in the sampling step that contains t *)
C17_TodoIngressoEncontrado ==
    SignosCalculados =>
        \A i \in 1..Len(planetas_list) :
            \A k \in FronteirasCruzadas(planetas_list[i].code,
                                        exec.jd_inicio, exec.jd_fim) :
                Cardinality(IngressosNoPasso(planetas_list[i], k,
                    CruzamentoVerdadeiro(planetas_list[i].code, k * 30 * GRAU))) = 1

(* C18: a scan (calcular_transitos or calcular_mudancas_signo) whose window
   ends at or before its beginning, as with dias_margem <= 0, is aborted by
   an error: it neither runs its loops nor returns a result *)
C18_JanelaInvalidaFalha ==
    (/\ exec.metodo \in {"calcular_transitos", "calcular_mudancas_signo"}
     /\ exec.pc \in {"laco", "deduplicar", "retorno"}) =>
        exec.jd_inicio < exec.jd_fim

(* the last instant that calcular_mudancas_signo samples for the body code *)
UltimaAmostra(code) ==
    LET intervalo == determinar_intervalo(code, code)
    IN  exec.jd_inicio + ((exec.jd_fim - exec.jd_inicio - 1) \div intervalo) * intervalo

(* C19: when the ephemeris raises for an instant of the scan, the failure
   leaves calcular_transitos or calcular_mudancas_signo: neither returns
   normally after a failed evaluation, no event later than the end of the
   ephemeris data is held, and the request to /api/calcular is answered with
   status erro and without a report *)
C19_FalhaPropagada ==
    /\ \A i \in 1..Len(transitos) : transitos[i].jd_exato <= efemeride.ate
    /\ \A i \in 1..Len(mudancas_signo) : mudancas_signo[i].jd_exato <= efemeride.ate
    /\ (exec.pc \in {"deduplicar", "retorno"}
            /\ exec.metodo = "calcular_transitos"
            /\ exec.jd_inicio < exec.jd_fim) =>
           exec.jd_fim <= efemeride.ate
    /\ (exec.pc = "retorno"
            /\ exec.metodo = "calcular_mudancas_signo"
            /\ exec.jd_inicio < exec.jd_fim) =>
           \A code \in DOMAIN efemeride.corpos : UltimaAmostra(code) <= efemeride.ate
    /\ (exec.pc = "respondido" /\ exec.jd_fim > efemeride.ate) =>
           exec.resposta = [status |-> "erro", codigo |-> 400, relatorio |-> FALSE]

C19_RespostaDeErro ==
    /\ exec.pc = "respondido"
    /\ exec.jd_fim > efemeride.ate
    /\ exec.resposta.status = "erro"

(* the pairs of bodies of the chart whose declinations are equal (s = 1) or
   opposite (s = -1) at the instant of the chart *)
ParesDeDeclinacao(s) ==
    {par \in (DOMAIN efemeride.corpos) \X (DOMAIN efemeride.corpos) :
        /\ par[1] < par[2]
        /\ calcular_declinacao_planeta(efemeride.jd, par[1])
             = s * calcular_declinacao_planeta(efemeride.jd, par[2])}

(* C20: calcular_transitos also passes over the declinations: after it has
   scanned a window, self.transitos holds a Transito of tipo PAR for every
   pair of bodies in exact parallel and one of tipo CPA for every pair in
   exact contraparallel *)
C20_ParalelosEContraparalelos ==
    (Varrido /\ exec.jd_inicio < exec.jd_fim) =>
        /\ \A par \in ParesDeDeclinacao(1) :
              \E i \in 1..Len(transitos) :
                  /\ transitos[i].tipo = "PAR"
                  /\ {transitos[i].planeta1, transitos[i].planeta2} = {par[1], par[2]}
        /\ \A par \in ParesDeDeclinacao(0 - 1) :
              \E i \in 1..Len(transitos) :
                  /\ transitos[i].tipo = "CPA"
                  /\ {transitos[i].planeta1, transitos[i].planeta2} = {par[1], par[2]}

(* the stages that returned before the i-th stage of the report began *)
FeitosAntes(i) == {exec.feitos[j] : j \in 1..(i - 1)}

(* C21: in gerar_relatorio the void-of-course derivation begins after the
   transit scan (with its deduplication) and the search of the sign ingresses
   have returned, and the compilation after all three; the periods are those
   derived from the deduplicated transits and the compiled events those of
   the three finished collections *)
C21_OrdemDoFluxo ==
    LET ts == deduplicate_transitos(deteccoes, JANELA_TEMPO)
        ms == MudancasSigno(ingressos)
        vs == VocPeriodos(ms, ts, ingressos)
    IN  \A i \in 1..Len(exec.feitos) :
            /\ exec.feitos[i] = "calcular_voc_lua" =>
                 /\ {"calcular_transitos", "calcular_mudancas_signo"} \subseteq FeitosAntes(i)
                 /\ voc_periodos = vs
            /\ exec.feitos[i] = "compilar_eventos_astral" =>
                 /\ {"calcular_transitos", "calcular_mudancas_signo",
                     "calcular_voc_lua"} \subseteq FeitosAntes(i)
                 /\ eventos_astral = Compilar(<<>>, ts, ms, vs)

C21_VocDepoisDeDeduplicar ==
    /\ exec.pc > Len(Etapas)
    /\ Len(transitos) < Len(deteccoes)
    /\ voc_periodos # <<>>
    /\ Len(eventos_astral) > Len(transitos)

(* the least distance between a and b over the whole turns added to one *)
DistanciaCircular(a, b) == Min({Abs(a - b + n * VOLTA) : n \in (0 - 2)..2})

(* C22: for all angles, negative ones and ones of a turn or more included,
   angular_difference(a, b) is angular_difference(b, a), lies between 0 and
   180 degrees and is the least circular distance between the two angles *)
C22_DistanciaSimetrica ==
    (exec.metodo = "angular_difference" /\ exec.pc = "retorno") =>
        /\ exec.retorno = angular_difference(exec.b, exec.a)
        /\ 0 <= exec.retorno
        /\ exec.retorno <= 180 * GRAU
        /\ exec.retorno = DistanciaCircular(exec.a, exec.b)

C22_NegativoEAlemDaVolta ==
    /\ exec.metodo = "angular_difference"
    /\ exec.pc = "retorno"
    /\ exec.a < 0
    /\ exec.b >= VOLTA
    /\ Abs((exec.a % VOLTA) - (exec.b % VOLTA)) > 180 * GRAU
    /\ exec.retorno > 0

(* C23: every stage clears its collection before it computes: whatever calls
   came before, the list that calcular_transitos built and deduplicated is
   that of its own scan, self.mudancas_signo that of the latest search, and
   after calcular_voc_lua or compilar_eventos_astral the collection holds
   what that call derived and nothing older *)
C23_SoAUltimaChamada ==
    /\ entrada \in {<<>>, deteccoes}
    /\ transitos \in {<<>>, deduplicate_transitos(deteccoes, JANELA_TEMPO)}
    /\ mudancas_signo \in {<<>>, MudancasSigno(ingressos)}
    /\ op = "calcular_voc_lua" =>
           /\ voc_periodos = VocPeriodos(mudancas_signo, transitos, ingressos)
           /\ Len(voc_periodos) <= Len(MudancasLua(mudancas_signo))
    /\ op = "compilar_eventos_astral" =>
           Len(eventos_astral) = Len(transitos) + Len(mudancas_signo) + Len(voc_periodos)

(* calcular_transitos returned for the second time at least: the periods were
   derived from the transits of an earlier call *)
C23_SegundaVarredura ==
    /\ op = "calcular_transitos"
    /\ voc_periodos # <<>>
    /\ eventos_astral # <<>>
    /\ transitos # <<>>
    /\ entrada = deteccoes

RECURSIVE MeiosDe(_, _, _)
(* the midpoints that the first n iterations of the bisection evaluate from
   the state st, with their residuals *)
MeiosDe(a, st, n) ==
    IF n = 0 THEN {}
    ELSE LET jd_meio == (st.jd1 + st.jd2) \div 2
         IN  {[jd |-> jd_meio, orbe |-> Abs(calcular_orbe_atual(jd_meio, a))]}
             \cup MeiosDe(a, Bissectar(a, st), n - 1)

(* the coarse samples and the midpoints that the call evaluated *)
Avaliados ==
    Range(exec.busca.amostras)
    \cup IF exec.busca.bracket = <<>> THEN {}
         ELSE MeiosDe(exec.a, [jd1 |-> exec.busca.bracket[1],
                               jd2 |-> exec.busca.bracket[2],
                               melhor |-> exec.busca.amostrado,
                               iteracoes |-> 0, retorno |-> <<>>],
                      exec.busca.iteracoes)

(* C24: a result of buscar_transito_exato other than the sentinel is the
   running best: its residual is the least among the coarse samples and the
   midpoints evaluated, it was evaluated at the instant returned, and that
   instant is inside [jd_inicio, jd_fim]; on the early exit too *)
C24_RetornaOMelhor ==
    (BuscaRetornou /\ exec.busca.retorno # NaoEncontrado) =>
        /\ \A e \in Avaliados : exec.busca.retorno[2] <= e.orbe
        /\ \E e \in Avaliados : <<e.jd, e.orbe>> = exec.busca.retorno
        /\ exec.a.jd_inicio <= exec.busca.retorno[1]
        /\ exec.busca.retorno[1] <= exec.a.jd_fim

(* the interior samples that are strict local minima of the residual *)
MinimosLocais(amostras) ==
    {i \in 2..(Len(amostras) - 1) : /\ amostras[i - 1].orbe > amostras[i].orbe
                                    /\ amostras[i].orbe < amostras[i + 1].orbe}

(* the first of the samples with the least residual *)
MelhorAmostra(amostras) ==
    Min({i \in 1..Len(amostras) :
            \A j \in 1..Len(amostras) : amostras[i].orbe <= amostras[j].orbe})

(* C25: the bisection begins on the two samples beside the first interior
   sample that is a strict local minimum of the residual and, when there is
   none, on the two samples beside the best sample (the end of the window
   taking the place of a missing neighbour), whatever the window *)
C25_BracketDoPrimeiroMinimo ==
    (BuscaRetornou /\ exec.busca.bracket # <<>>) =>
        LET amostras == exec.busca.amostras
            N == Len(amostras)
            i == IF MinimosLocais(amostras) # {}
                 THEN Min(MinimosLocais(amostras))
                 ELSE MelhorAmostra(amostras)
        IN  exec.busca.bracket = <<amostras[Max({1, i - 1})].jd,
                                   amostras[Min({N, i + 1})].jd>>

(* C26: the deduplication of calcular_transitos collapses identical
   detections only: for every Transito that the scan appended, the list kept
   holds one of the same first body, the same second body or the same fixed
   point (ASC, MC and FOR are different targets) and the same aspect *)
C26_SoColapsaIdenticos ==
    Varrido =>
        \A i \in 1..Len(entrada) :
            \E j \in 1..Len(transitos) :
                /\ transitos[j].planeta1 = entrada[i].planeta1
                /\ transitos[j].planeta2 = entrada[i].planeta2
                /\ transitos[j].planeta2_nome = entrada[i].planeta2_nome
                /\ transitos[j].aspecto = entrada[i].aspecto

(* the steps of calcular_transitos tile the window: the step that ended last
   (exec.passo) advances, by its cadence at most, inside [jd_inicio, jd_fim];
   the loop goes on from its end while that is before jd_fim, and a loop
   begins at jd_inicio and is left only with a step that ends at jd_fim *)
Ladrilhado ==
    (exec.metodo = "calcular_transitos"
         /\ exec.pc \in {"laco", "deduplicar", "retorno"}
         /\ exec.jd_inicio < exec.jd_fim) =>
        IF exec.passo = <<>>
        THEN exec.pc = "laco" /\ exec.n = 1 /\ exec.jd_atual = exec.jd_inicio
        ELSE /\ exec.jd_inicio <= exec.passo.jd_atual
             /\ exec.passo.jd_atual < exec.passo.jd_prox
             /\ exec.passo.jd_prox <= exec.passo.jd_atual + exec.passo.alvo.intervalo
             /\ exec.passo.jd_prox <= exec.jd_fim
             /\ (exec.passo.jd_prox < exec.jd_fim) =>
                    /\ exec.pc = "laco"
                    /\ Alvos[exec.n] = exec.passo.alvo
                    /\ exec.jd_atual = exec.passo.jd_prox
             /\ (exec.passo.jd_prox = exec.jd_fim /\ exec.pc = "laco") =>
                    /\ Alvos[exec.n - 1] = exec.passo.alvo
                    /\ exec.jd_atual = exec.jd_inicio

(* an iteration leaves the loops, or goes on later in the same window (a
   whole tick at least, and before jd_fim), or begins the loop of the next
   of the finitely many targets: the pair (targets left, time left)
   decreases, so that the loops end *)
Avanca ==
    (exec.metodo = "calcular_transitos" /\ exec.pc = "laco") =>
        \/ exec'.pc \in {"deduplicar", "excecao"}
        \/ /\ exec'.pc = "laco"
           /\ exec'.n = exec.n
           /\ exec.jd_atual < exec'.jd_atual
           /\ exec'.jd_atual < exec.jd_fim
        \/ /\ exec'.pc = "laco"
           /\ exec'.n = exec.n + 1
           /\ exec'.n <= Len(Alvos)
           /\ exec'.jd_atual = exec.jd_inicio

(* C27: every time-stepping loop of calcular_transitos ends, and its steps
   [jd_atual, jd_prox] tile the window from jd_inicio to jd_fim *)
C27_LacosTerminamELadrilham == []Ladrilhado /\ [][Avanca]_vars

(* a loop was left with a last step shorter than its cadence, cut at jd_fim *)
C27_UltimoPassoCortado ==
    /\ exec.metodo = "calcular_transitos"
    /\ exec.pc = "retorno"
    /\ exec.passo # <<>>
    /\ exec.passo.jd_prox = exec.jd_fim
    /\ exec.passo.jd_prox < exec.passo.jd_atual + exec.passo.alvo.intervalo

====
